---- MODULE Spec2Model ----
(***************************************************************************)
(* nanoprogress: a thread-safe single-line progress bar (src/src/lib.rs).  *)
(*                                                                         *)
(* Four specifications share the variables.  SpecBuilder follows the       *)
(* ProgressBarBuilder from ProgressBar::new through its configuration      *)
(* calls to the return of start().  Spec follows a started bar: the        *)
(* operations of its handles (ProgressBar values sharing one               *)
(* Arc<Mutex<ProgressBarState>>).  Every handle is driven by its own       *)
(* thread of control; an operation is split at the points where other      *)
(* threads can interleave: the call, the acquisition of the mutex, and the *)
(* steps of the critical section (which ends with the release of the       *)
(* guard).  Drop reads the Arc strong count before it takes the mutex and  *)
(* decrements it after its body has run.  SpecFailing is Spec on a writer  *)
(* whose writes fail.  SpecRender applies render() to the states of a      *)
(* larger range of counts and widths.                                      *)
(*                                                                         *)
(* The sink is the sequence of text pieces handed to the writer, in order. *)
(* called, history and cleanups are history variables: they record what    *)
(* was done and influence nothing.                                         *)
(***************************************************************************)
EXTENDS Integers, Sequences, FiniteSets, TLC

\* ---------------------------------------------------------------- bounds
\* Largest value of the counter type.  The code uses u64 (2^64 - 1); the
\* model keeps the saturating arithmetic and scales the width down.
U64Max == 7

\* Handles (the original and its clones) that can exist over a bar's life.
MaxHandles == 2

\* Calls of tick, set_message, success and fail over a bar's life.
MaxCalls == 2

\* Builder configuration calls before start().
MaxConfig == 2

\* Width of the bar whose handles Spec follows (the default, 40, only makes
\* every record longer).
BarWidth == 3

\* Largest total of the states that render() is applied to on its own.
MaxTotal == 100

U64 == 0 .. U64Max
Handles == 1 .. MaxHandles

\* Inputs the callers draw from.
TickAmounts == {0, 1, U64Max}
Totals == {0, 1, 3, U64Max}
Messages == {"", "msg"}
FinalMessages == {"done"}
Widths == {0, 3}
Glyphs == {"#"}
RenderWidths == {0, 1, 3, 10, 40, 45}

\* ------------------------------------------------------------- constants
DefaultWidth == 40
\* the glyphs are named, not spelled: U+2588, U+2591, U+2714, U+2716
DefaultFill == "FULL_BLOCK"
DefaultEmpty == "LIGHT_SHADE"
SuccessSymbol == "CHECK_MARK"
FailSymbol == "CROSS_MARK"
Green == "ESC[32m"
Red == "ESC[31m"
ClearLine == "ESC[2K"
Reset == "ESC[0m"
CR == "\r"
LF == "\n"

\* Option<bool> of the builder's tty_override.
None == "None"
SomeTrue == "Some(true)"
SomeFalse == "Some(false)"

VARIABLES
    phase,        \* "builder" until start() has returned, then "running";
                  \* "rendering" and "rendered" where render() is applied on its own
    builder,      \* the ProgressBarBuilder
    probe,        \* what is_stdout_tty() answered, FALSE while it was not called
    probe_calls,  \* number of calls of is_stdout_tty() so far
    state,        \* the ProgressBarState behind the mutex
    out,          \* text pieces written to the writer so far
    sink_ok,      \* does the writer accept what is written to it?
    lock,         \* 0, or the handle whose thread holds the mutex guard
    strong,       \* strong count of the Arc
    pc,           \* per handle: where its thread is
    arg,          \* per handle: arguments of the call in progress
    nconfig,      \* builder configuration calls made
    ncalls,       \* calls of tick/set_message/success/fail made
    called,       \* history: the amounts of the tick calls made, in the order of the calls
    history,      \* history: the operations that took their effect, in that order
    cleanups      \* history: how many times Drop wrote its newline

vars == <<phase, builder, probe, probe_calls, state, out, sink_ok, lock, strong,
          pc, arg, nconfig, ncalls, called, history, cleanups>>

shared == <<state, out>>
ghost == <<called, history, cleanups>>
builderVars == <<builder, probe, probe_calls, nconfig>>

Min(a, b) == IF a < b THEN a ELSE b
Max(a, b) == IF a < b THEN b ELSE a

\* std::iter::repeat_n(ch, n), collected.  n is a usize; a negative n here
\* would be width - filled underflowing, which no state of the program
\* produces, since filled <= width
Repeat(ch, n) == [i \in 1 .. Max(n, 0) |-> ch]

\* u64::saturating_add
saturating_add(a, b) == IF a + b > U64Max THEN U64Max ELSE a + b


\* ------------------------------------------------------ f64 arithmetic
\* render() computes in f64.  A finite f64 > 0 is sig * 2^e with a significand
\* of 53 binary digits, the first of them 1.  The significand is kept in three
\* limbs, sig = h * 2^35 + m * 2^17 + l with 2^17 <= h < 2^18, 0 <= m < 2^18
\* and 0 <= l < 2^17, so that every intermediate result stays a small integer.
\* Results are rounded to nearest, ties to even, as the hardware does.  The
\* integers converted here (counts and widths below 2^12) are far below 2^53,
\* so `as f64` is exact on them.
P17 == 2 ^ 17
P18 == 2 ^ 18

F64Zero == [zero |-> TRUE, h |-> 0, m |-> 0, l |-> 0, e |-> 0]

\* number of binary digits of n, for 1 <= n < 2^31
bit_length(n) == CHOOSE k \in 1 .. 31 : 2 ^ (k - 1) <= n /\ (k = 31 \/ n < 2 ^ k)

\* the f64 nearest to (h * 2^35 + m * 2^17 + l + f) * 2^e, where 0 <= f < 1 is
\* known by its first binary digit (guard) and by whether more follows (sticky)
f64_nearest(h, m, l, e, guard, sticky) ==
    LET up == guard = 1 /\ (sticky \/ l % 2 = 1)
        l1 == IF up THEN l + 1 ELSE l
        m1 == IF l1 = P17 THEN m + 1 ELSE m
        h1 == IF m1 = P18 THEN h + 1 ELSE h
    IN  IF h1 = P18
        THEN [zero |-> FALSE, h |-> P17, m |-> 0, l |-> 0, e |-> e + 1]
        ELSE [zero |-> FALSE, h |-> h1, m |-> m1 % P18, l |-> l1 % P17, e |-> e]

\* a as f64 / b as f64, for integers 0 <= a and 0 < b < 2^12
f64_div(a, b) ==
    IF a = 0 THEN F64Zero
    ELSE LET \* scale a / b into [1/2, 1): r0 / b2 with b2 = b * 2^up, r0 = a * 2^dn
             up == IF a >= b THEN bit_length(a \div b) ELSE 0
             b2 == b * 2 ^ up
             dn == CHOOSE k \in 0 .. 31 : 2 * a * 2 ^ k >= b2 /\ a * 2 ^ k < b2
             r0 == a * 2 ^ dn
             \* 54 digits of r0 / b2 after the binary point, 18 at a time
             q1 == (r0 * P18) \div b2
             r1 == (r0 * P18) % b2
             q2 == (r1 * P18) \div b2
             r2 == (r1 * P18) % b2
             q3 == (r2 * P18) \div b2
             r3 == (r2 * P18) % b2
         IN  f64_nearest(q1, q2, q3 \div 2, up - dn - 53, q3 % 2, r3 # 0)

\* x * (k as f64), for an integer 0 <= k < 2^12
f64_mul(x, k) ==
    IF x.zero \/ k = 0 THEN F64Zero
    ELSE LET pl == x.l * k
             pm == x.m * k + pl \div P17
             ph == x.h * k + pm \div P18
             low == pl % P17
             mid == pm % P18
             \* the exact product is ph * 2^35 + mid * 2^17 + low; s digits too many
             s == bit_length(ph) - 18
             d == 2 ^ s
             h == ph \div d
             m == (ph % d) * (P18 \div d) + mid \div d
             l == (mid % d) * (P17 \div d) + low \div d
             dropped == low % d
             guard == IF s = 0 THEN 0 ELSE (dropped \div (d \div 2)) % 2
             sticky == s > 0 /\ dropped % (d \div 2) # 0
         IN  f64_nearest(h, m, l, x.e + s, guard, sticky)

\* number of digits of x before the binary point
int_digits(x) == 53 + x.e

\* the i-th binary digit of the significand of x, counted from the first
sig_digit(x, i) ==
    IF i <= 18 THEN (x.h \div 2 ^ (18 - i)) % 2
    ELSE IF i <= 36 THEN (x.m \div 2 ^ (36 - i)) % 2
    ELSE (x.l \div 2 ^ (53 - i)) % 2

\* x as u64 / x as usize, for x < 2^30: the fraction is cut off
f64_trunc(x) ==
    IF x.zero \/ int_digits(x) <= 0 THEN 0
    ELSE IF int_digits(x) <= 18 THEN x.h \div 2 ^ (18 - int_digits(x))
    ELSE x.h * 2 ^ (int_digits(x) - 18) + x.m \div 2 ^ (36 - int_digits(x))

\* x.round(), for x < 2^30: to the nearest integer, halves away from zero
f64_round(x) ==
    IF x.zero \/ int_digits(x) < 0 THEN 0
    ELSE f64_trunc(x) + sig_digit(x, int_digits(x) + 1)

\* self.current as f64 / self.total.max(1) as f64
ratio_of(current, total) == f64_div(current, Max(total, 1))

\* (ratio * self.config.width as f64).round() as usize
filled_of(current, total, width) == f64_round(f64_mul(ratio_of(current, total), width))

\* (ratio * 100.0) as u64
percent_of(current, total) == f64_trunc(f64_mul(ratio_of(current, total), 100))

\* ------------------------------------------------------------- rendering
\* {:>3}: right-aligned in three columns
pad3(n) ==
    IF n < 10 THEN "  " \o ToString(n)
    ELSE IF n < 100 THEN " " \o ToString(n)
    ELSE ToString(n)

\* the line built by render(), as text pieces
line_of(st) ==
    LET filled == filled_of(st.current, st.total, st.config.width)
        empty == st.config.width - filled
        percent == percent_of(st.current, st.total)
        bar == Repeat(st.config.fill, filled) \o Repeat(st.config.empty, empty)
        head == <<"[">> \o bar \o
                <<"]", " ", pad3(percent), "%", " ",
                  ToString(st.current), "/", ToString(st.total)>>
    IN  IF st.message = "" THEN head ELSE head \o <<" ", st.message>>

\* write!(self.writer, ..).ok() and self.writer.flush().ok(): the sink after a
\* piece was handed to it; a failing writer takes nothing and the error is
\* dropped
write(w, piece) == IF sink_ok THEN w \o piece ELSE w

\* mutant: render() frames every record as in non-terminal mode
render_pieces_newline(st) == <<line_of(st), (<<LF>>)>>

\* the two pieces that render() hands to the writer, one after the other:
\* write!(w, "\r{}", line) and writeln!(w, "{}", line)
render_pieces(st) ==
    IF st.is_tty THEN <<(<<CR>>), line_of(st)>> ELSE <<line_of(st), (<<LF>>)>>

\* what one render() writes
render(st) == render_pieces(st)[1] \o render_pieces(st)[2]

\* mutant: the finalization record shows the stored message
finalize_bytes_stored_message(st, symbol, color_code, msg) ==
    IF st.is_tty
    THEN <<CR, ClearLine, color_code, symbol, Reset, " ", st.message, LF>>
    ELSE <<symbol, " ", st.message, LF>>

\* mutant: the finalization record is coloured in every mode
finalize_bytes_coloured(st, symbol, color_code, msg) ==
    <<CR, ClearLine, color_code, symbol, Reset, " ", msg, LF>>

\* what finalize() writes when the bar is not yet finished
finalize_bytes(st, symbol, color_code, msg) ==
    IF st.is_tty
    THEN <<CR, ClearLine, color_code, symbol, Reset, " ", msg, LF>>
    ELSE <<symbol, " ", msg, LF>>

\* mutant: a finalize call on a finished bar reopens it
finalize_reopening(st, w, symbol, color_code, msg) ==
    IF st.finished
    THEN [st |-> [st EXCEPT !.finished = FALSE], w |-> w]
    ELSE [st |-> [st EXCEPT !.finished = TRUE],
          w |-> write(w, finalize_bytes(st, symbol, color_code, msg))]

\* mutant: finalize does not test the finished flag
finalize_unguarded(st, w, symbol, color_code, msg) ==
    [st |-> [st EXCEPT !.finished = TRUE],
     w |-> write(w, finalize_bytes(st, symbol, color_code, msg))]

\* mutant: finalize gives up, the flag not set, when its write fails
finalize_unless_write_fails(st, w, symbol, color_code, msg) ==
    IF st.finished \/ ~sink_ok
    THEN [st |-> st, w |-> w]
    ELSE [st |-> [st EXCEPT !.finished = TRUE],
          w |-> write(w, finalize_bytes(st, symbol, color_code, msg))]

\* ProgressBarState::finalize: the state and the sink afterwards
finalize(st, w, symbol, color_code, msg) ==
    IF st.finished
    THEN [st |-> st, w |-> w]
    ELSE [st |-> [st EXCEPT !.finished = TRUE],
          w |-> write(w, finalize_bytes(st, symbol, color_code, msg))]

\* --------------------------------------------------------------- builder
BarConfigDefault == [width |-> DefaultWidth, fill |-> DefaultFill, empty |-> DefaultEmpty]

\* ProgressBar::new
new(total) ==
    [total |-> total, config |-> BarConfigDefault, message |-> "",
     writer |-> FALSE, tty_override |-> None]

\* Before start() there is no ProgressBarState.
NoState ==
    [current |-> 0, total |-> 0, message |-> "", finished |-> FALSE,
     config |-> BarConfigDefault, is_tty |-> FALSE]

NoArg ==
    [op |-> "", amount |-> 0, msg |-> "", symbol |-> "", color |-> "", next |-> 0]

\* The builder as ProgressBar::new(total) returns it.
InitBuilder ==
    /\ phase = "builder"
    /\ \E total \in Totals : builder = new(total)
    /\ probe = FALSE
    /\ probe_calls = 0
    /\ state = NoState
    /\ out = <<>>
    /\ sink_ok = TRUE
    /\ lock = 0
    /\ strong = 0
    /\ pc = [h \in Handles |-> "unborn"]
    /\ arg = [h \in Handles |-> NoArg]
    /\ nconfig = 0
    /\ ncalls = 0
    /\ called = <<>>
    /\ history = <<>>
    /\ cleanups = 0

Configure(b) ==
    /\ phase = "builder"
    /\ nconfig < MaxConfig
    /\ builder' = b
    /\ nconfig' = nconfig + 1
    /\ UNCHANGED <<phase, sink_ok, probe, probe_calls, state, out, lock, strong, pc,
                   arg, ncalls, ghost>>

width(n) == Configure([builder EXCEPT !.config.width = n])

fill(ch) == Configure([builder EXCEPT !.config.fill = ch])

empty(ch) == Configure([builder EXCEPT !.config.empty = ch])

message(msg) == Configure([builder EXCEPT !.message = msg])

\* the writer itself is the sink `out`; the builder remembers that one was given
writer == Configure([builder EXCEPT !.writer = TRUE])

tty(is_tty) ==
    Configure([builder EXCEPT !.tty_override = IF is_tty THEN SomeTrue ELSE SomeFalse])

\* mutant: the total is taken as supplied
start_total_raw(b) == b.total

\* total normalisation of start()
start_total(b) == IF b.total = 0 THEN 1 ELSE b.total

\* does start() call is_stdout_tty()?
start_probes(b) == b.tty_override = None /\ ~b.writer

\* mutant: a custom writer switches terminal mode off whatever tty() said
start_is_tty_writer_first(b, probed) ==
    IF b.writer THEN FALSE
    ELSE IF b.tty_override = SomeTrue THEN TRUE
    ELSE IF b.tty_override = SomeFalse THEN FALSE
    ELSE probed

\* terminal mode resolved by start()
start_is_tty(b, probed) ==
    IF b.tty_override = SomeTrue THEN TRUE
    ELSE IF b.tty_override = SomeFalse THEN FALSE
    ELSE IF b.writer THEN FALSE
    ELSE probed

\* start(self) takes the builder by value: afterwards nothing of it is left
\* but the record of the total that had been supplied
moved(b) == new(b.total)

\* mutant: start() forgets the message given to the builder
start_state_without_message(b, probed) ==
    [current |-> 0,
     total |-> start_total(b),
     message |-> "",
     finished |-> FALSE,
     config |-> b.config,
     is_tty |-> start_is_tty(b, probed)]

\* the ProgressBarState that start() builds
start_state(b, probed) ==
    [current |-> 0,
     total |-> start_total(b),
     message |-> b.message,
     finished |-> FALSE,
     config |-> b.config,
     is_tty |-> start_is_tty(b, probed)]

start ==
    /\ phase = "builder"
    /\ \E probed \in BOOLEAN :
        /\ start_probes(builder) \/ probed = probe
        /\ probe' = probed
        /\ state' = start_state(builder, probed)
        /\ out' = write(out, render(start_state(builder, probed)))
    /\ probe_calls' = IF start_probes(builder) THEN probe_calls + 1 ELSE probe_calls
    /\ phase' = "running"
    /\ strong' = 1
    /\ pc' = [pc EXCEPT ![1] = "ready"]
    /\ builder' = moved(builder)
    /\ nconfig' = 0
    /\ UNCHANGED <<sink_ok, lock, arg, ncalls, ghost>>

\* The bar as start() returns it, for
\* ProgressBar::new(total).width(BarWidth).writer(w).tty(is_tty).start()
\* on a writer w that accepts what is written (ok) or fails on every write
Started(ok) ==
    \E total \in Totals, is_tty \in BOOLEAN :
        LET b == [new(total) EXCEPT
                    !.config.width = BarWidth,
                    !.writer = TRUE,
                    !.tty_override = IF is_tty THEN SomeTrue ELSE SomeFalse]
        IN  /\ phase = "running"
            /\ builder = moved(b)
            /\ probe = FALSE
            /\ probe_calls = 0
            /\ state = start_state(b, FALSE)
            /\ sink_ok = ok
            /\ out = write(<<>>, render(start_state(b, FALSE)))
            /\ lock = 0
            /\ strong = 1
            /\ pc = [h \in Handles |-> IF h = 1 THEN "ready" ELSE "unborn"]
            /\ arg = [h \in Handles |-> NoArg]
            /\ nconfig = 0
            /\ ncalls = 0
            /\ called = <<>>
            /\ history = <<>>
            /\ cleanups = 0

InitStarted == Started(TRUE)

InitFailing == Started(FALSE)

\* ---------------------------------------------------------------- handles
Live(h) == pc[h] \notin {"unborn", "dropped"}

\* an entry of `history`: the critical section of op with argument a was
\* completed; acted is FALSE when the operation found nothing to do
Done(op, a, acted) ==
    [op |-> op, amount |-> a.amount, msg |-> a.msg, acted |-> acted]

\* mutant: the mutex excludes nobody
lock_free_always(l) == TRUE

\* Mutex::lock returns once no other thread holds the guard
lock_free(l) == l = 0

\* the handle's thread obtains the guard and enters its critical section
lock_acquire(h) ==
    /\ pc[h] \in {"tick_lock", "set_message_lock", "finalize_lock", "drop_lock"}
    /\ lock_free(lock)
    /\ lock' = h
    /\ pc' = [pc EXCEPT ![h] =
                CASE pc[h] = "tick_lock" -> "tick_cs"
                  [] pc[h] = "set_message_lock" -> "set_message_cs"
                  [] pc[h] = "finalize_lock" -> "finalize_cs"
                  [] pc[h] = "drop_lock" -> "drop_cs"]
    /\ UNCHANGED <<phase, sink_ok, builderVars, shared, strong, arg, ncalls, ghost>>

\* a caller invokes an operation on its handle
Call(h, stage, a) ==
    /\ phase = "running"
    /\ pc[h] = "ready"
    /\ ncalls < MaxCalls
    /\ ncalls' = ncalls + 1
    /\ pc' = [pc EXCEPT ![h] = stage]
    /\ arg' = [arg EXCEPT ![h] = a]
    /\ UNCHANGED <<phase, sink_ok, builderVars, shared, lock, strong, history, cleanups>>

\* mutant: the operation returns and its guard is never dropped
Return_keeping_guard(h) ==
    /\ lock' = lock
    /\ pc' = [pc EXCEPT ![h] = "ready"]
    /\ arg' = [arg EXCEPT ![h] = NoArg]

\* the critical section of handle h ends: the guard goes out of scope
Return(h) ==
    /\ lock' = 0
    /\ pc' = [pc EXCEPT ![h] = "ready"]
    /\ arg' = [arg EXCEPT ![h] = NoArg]

tick_call(h, amount) ==
    /\ Call(h, "tick_lock", [NoArg EXCEPT !.op = "tick", !.amount = amount])
    /\ called' = Append(called, amount)

\* mutant: the addition wraps around instead of saturating
tick_current_wrapping(current, amount, total) ==
    Min((current + amount) % (U64Max + 1), total)

\* mutant: the sum is not clamped to the total
tick_current_unclamped(current, amount, total) == saturating_add(current, amount)

\* s.current.saturating_add(amount).min(s.total)
tick_current(current, amount, total) == Min(saturating_add(current, amount), total)

\* mutant: tick does not test the finished flag
tick_rejected_never(st) == FALSE

\* tick returns at once on a finished bar
tick_rejected(st) == st.finished

\* tick, under the guard: the finished test and the evaluation of the new count
tick_cs(h) ==
    /\ pc[h] = "tick_cs"
    /\ IF tick_rejected(state)
       THEN /\ Return(h)
            /\ history' = Append(history, Done("tick", arg[h], FALSE))
       ELSE /\ pc' = [pc EXCEPT ![h] = "tick_store"]
            /\ arg' = [arg EXCEPT ![h].next =
                         tick_current(state.current, arg[h].amount, state.total)]
            /\ UNCHANGED <<lock, history>>
    /\ UNCHANGED <<phase, sink_ok, builderVars, shared, strong, ncalls, called, cleanups>>

\* mutant: tick gives the guard back before render() has written its record
tick_store_unlocking(h) ==
    /\ pc[h] = "tick_store"
    /\ LET st == [state EXCEPT !.current = arg[h].next]
       IN  /\ state' = st
           /\ out' = write(out, render_pieces(st)[1])
    /\ history' = Append(history, Done("tick", arg[h], TRUE))
    /\ pc' = [pc EXCEPT ![h] = "tick_write"]
    /\ lock' = 0
    /\ UNCHANGED <<phase, sink_ok, builderVars, strong, arg, ncalls, called, cleanups>>

\* tick, under the guard: the assignment to s.current, then render() up to
\* its first write
tick_store(h) ==
    /\ pc[h] = "tick_store"
    /\ LET st == [state EXCEPT !.current = arg[h].next]
       IN  /\ state' = st
           /\ out' = write(out, render_pieces(st)[1])
    /\ history' = Append(history, Done("tick", arg[h], TRUE))
    /\ pc' = [pc EXCEPT ![h] = "tick_write"]
    /\ UNCHANGED <<phase, sink_ok, builderVars, lock, strong, arg, ncalls, called,
                   cleanups>>

\* tick, under the guard: the second write of render(), the flush and the return
tick_write(h) ==
    /\ pc[h] = "tick_write"
    /\ out' = write(out, render_pieces(state)[2])
    /\ Return(h)
    /\ UNCHANGED <<phase, sink_ok, builderVars, state, strong, ncalls, ghost>>

set_message_call(h, msg) ==
    /\ Call(h, "set_message_lock", [NoArg EXCEPT !.op = "set_message", !.msg = msg])
    /\ UNCHANGED called

\* mutant: set_message renders the bar with its new message
set_message_cs_rendering(h) ==
    /\ pc[h] = "set_message_cs"
    /\ LET st == [state EXCEPT !.message = arg[h].msg]
       IN  /\ state' = st
           /\ out' = write(out, render(st))
    /\ history' = Append(history, Done("set_message", arg[h], TRUE))
    /\ Return(h)
    /\ UNCHANGED <<phase, sink_ok, builderVars, strong, ncalls, called, cleanups>>

\* set_message, under the guard
set_message_cs(h) ==
    /\ pc[h] = "set_message_cs"
    /\ state' = [state EXCEPT !.message = arg[h].msg]
    /\ history' = Append(history, Done("set_message", arg[h], TRUE))
    /\ Return(h)
    /\ UNCHANGED <<phase, sink_ok, builderVars, out, strong, ncalls, called, cleanups>>

success_call(h, msg) ==
    /\ Call(h, "finalize_lock",
            [NoArg EXCEPT !.op = "success", !.msg = msg, !.symbol = SuccessSymbol,
                          !.color = Green])
    /\ UNCHANGED called

fail_call(h, msg) ==
    /\ Call(h, "finalize_lock",
            [NoArg EXCEPT !.op = "fail", !.msg = msg, !.symbol = FailSymbol,
                          !.color = Red])
    /\ UNCHANGED called

\* success / fail, under the guard
finalize_cs(h) ==
    /\ pc[h] = "finalize_cs"
    /\ LET r == finalize(state, out, arg[h].symbol, arg[h].color, arg[h].msg)
       IN  /\ state' = r.st
           /\ out' = r.w
    /\ history' = Append(history, Done(arg[h].op, arg[h], ~state.finished))
    /\ Return(h)
    /\ UNCHANGED <<phase, sink_ok, builderVars, strong, ncalls, called, cleanups>>

\* mutant: Clone renders the bar for the new handle
clone_rendering(h, h2) ==
    /\ phase = "running"
    /\ pc[h] = "ready"
    /\ pc[h2] = "unborn"
    /\ \A k \in Handles : k < h2 => pc[k] # "unborn"
    /\ strong' = strong + 1
    /\ pc' = [pc EXCEPT ![h2] = "ready"]
    /\ out' = write(out, render(state))
    /\ UNCHANGED <<phase, sink_ok, builderVars, state, lock, arg, ncalls, ghost>>

\* Clone: Arc::clone adds one to the strong count; h2 is the new handle
clone(h, h2) ==
    /\ phase = "running"
    /\ pc[h] = "ready"
    /\ pc[h2] = "unborn"
    /\ \A k \in Handles : k < h2 => pc[k] # "unborn"
    /\ strong' = strong + 1
    /\ pc' = [pc EXCEPT ![h2] = "ready"]
    /\ UNCHANGED <<phase, sink_ok, builderVars, shared, lock, arg, ncalls, ghost>>

\* mutant: Drop takes every handle for the last one
is_last_always(count) == TRUE

\* Arc::strong_count(&self.state) == 1
is_last(count) == count = 1

\* Drop: the strong count is read before the mutex is taken
drop_check(h) ==
    /\ phase = "running"
    /\ pc[h] = "ready"
    /\ pc' = [pc EXCEPT ![h] = IF is_last(strong) THEN "drop_lock" ELSE "drop_arc"]
    /\ UNCHANGED <<phase, sink_ok, builderVars, shared, lock, strong, arg, ncalls, ghost>>

\* mutant: Drop tests the flag the wrong way round
drop_writes_inverted(st) == st.finished

\* mutant: Drop writes its newline also after a finalize
drop_writes_always(st) == TRUE

\* does Drop write its newline?
drop_writes(st) == ~st.finished

\* Drop, under the guard
drop_cs(h) ==
    /\ pc[h] = "drop_cs"
    /\ IF drop_writes(state)
       THEN /\ out' = write(out, <<LF>>)
            /\ cleanups' = cleanups + 1
       ELSE UNCHANGED <<out, cleanups>>
    /\ history' = Append(history, Done("drop", NoArg, drop_writes(state)))
    /\ lock' = 0
    /\ pc' = [pc EXCEPT ![h] = "drop_arc"]
    /\ UNCHANGED <<phase, sink_ok, builderVars, state, strong, arg, ncalls, called>>

\* after drop() the handle's Arc field is dropped: the strong count goes down
drop_arc(h) ==
    /\ pc[h] = "drop_arc"
    /\ strong' = strong - 1
    /\ pc' = [pc EXCEPT ![h] = "dropped"]
    /\ UNCHANGED <<phase, sink_ok, builderVars, shared, lock, arg, ncalls, ghost>>

\* the builder's configuration calls and start()
NextBuilder ==
    \/ \E n \in Widths : width(n)
    \/ \E ch \in Glyphs : fill(ch)
    \/ \E ch \in Glyphs : empty(ch)
    \/ \E msg \in Messages : message(msg)
    \/ writer
    \/ \E b \in BOOLEAN : tty(b)
    \/ start

\* the operations on the handles of a started bar
Next ==
    \E h \in Handles :
        \/ \E amount \in TickAmounts : tick_call(h, amount)
        \/ \E msg \in Messages : set_message_call(h, msg)
        \/ \E msg \in FinalMessages : success_call(h, msg)
        \/ \E msg \in FinalMessages : fail_call(h, msg)
        \/ lock_acquire(h)
        \/ tick_cs(h)
        \/ tick_store(h)
        \/ tick_write(h)
        \/ set_message_cs(h)
        \/ finalize_cs(h)
        \/ \E h2 \in Handles : clone(h, h2)
        \/ drop_check(h)
        \/ drop_cs(h)
        \/ drop_arc(h)

\* a started bar and its handles
Spec == InitStarted /\ [][Next]_vars

\* the builder, up to the return of start()
SpecBuilder == InitBuilder /\ [][NextBuilder]_vars

\* A ProgressBarState that start() and tick can produce: 1 <= total and
\* current <= total; the width, the message and the mode are the builder's.
InitRender ==
    /\ phase = "rendering"
    /\ \E total \in 1 .. MaxTotal, n \in RenderWidths, msg \in Messages,
          is_tty \in BOOLEAN :
        \E current \in 0 .. total :
            /\ builder = new(total)
            /\ state = [current |-> current, total |-> total, message |-> msg,
                        finished |-> FALSE,
                        config |-> [BarConfigDefault EXCEPT !.width = n],
                        is_tty |-> is_tty]
    /\ probe = FALSE
    /\ probe_calls = 0
    /\ out = <<>>
    /\ sink_ok = TRUE
    /\ lock = 0
    /\ strong = 0
    /\ pc = [h \in Handles |-> "unborn"]
    /\ arg = [h \in Handles |-> NoArg]
    /\ nconfig = 0
    /\ ncalls = 0
    /\ called = <<>>
    /\ history = <<>>
    /\ cleanups = 0

\* one call of ProgressBarState::render on that state
render_call ==
    /\ phase = "rendering"
    /\ out' = write(out, render(state))
    /\ phase' = "rendered"
    /\ UNCHANGED <<sink_ok, builderVars, state, lock, strong, pc, arg, ncalls, ghost>>

NextRender == render_call

\* render() on its own
SpecRender == InitRender /\ [][NextRender]_vars

\* an operation (tick, set_message, success, fail or drop) was started on h and
\* has not returned
InOperation(h) == pc[h] \notin {"unborn", "ready", "dropped"}

\* the thread of handle h can run: it is inside an operation and, where it
\* waits in Mutex::lock, the mutex is free
Runnable(h) ==
    /\ InOperation(h)
    /\ pc[h] \in {"tick_lock", "set_message_lock", "finalize_lock", "drop_lock"} =>
           lock_free(lock)

\* the scheduler runs the thread of handle h: the thread leaves the point of
\* its operation that it is at
Sched(h) ==
    /\ Runnable(h)
    /\ \E p \in {"ready", "dropped", "tick_cs", "tick_store", "tick_write",
                  "set_message_cs", "finalize_cs", "drop_cs", "drop_arc"} :
           /\ p # pc[h]
           /\ pc' = [pc EXCEPT ![h] = p]

\* The scheduler lets every thread run that can.  std::sync::Mutex promises no
\* order among the waiting threads, so the fairness is weak; whether and when
\* a caller starts an operation, clones or releases a handle is up to the
\* caller.
Fairness == \A h \in Handles : WF_pc(Sched(h))

\* ProgressBar::new(3) as start() returns it, in either mode; what a thread
\* waits for does not depend on the total
InitFair == InitStarted /\ state.total = 3

\* a started bar and its handles under a fair scheduler
SpecFair == InitFair /\ [][Next]_vars /\ Fairness

\* a started bar and its handles, on a writer that fails
SpecFailing == InitFailing /\ [][Next]_vars

\* ------------------------------------------------------------ properties
TypeOK ==
    /\ phase \in {"builder", "running", "rendering", "rendered"}
    /\ phase \in {"builder", "running"} => state.current \in U64 /\ state.total \in U64
    /\ lock \in 0 .. MaxHandles
    /\ strong \in 0 .. MaxHandles


Running == phase = "running"

\* no handle is between the call and the return of an operation
Quiescent == \A h \in Handles : pc[h] \in {"unborn", "ready", "dropped"}

IsAppliedTick(e) == e.op = "tick" /\ e.acted

\* the amounts of the ticks that took effect, in the order in which they did
applied ==
    LET ticks == SelectSeq(history, IsAppliedTick)
    IN  [i \in 1 .. Len(ticks) |-> ticks[i].amount]

\* ticks.iter().fold(0, |acc, t| acc.saturating_add(*t))
RECURSIVE saturating_sum(_)
saturating_sum(ts) ==
    IF ts = <<>> THEN 0
    ELSE saturating_add(saturating_sum(SubSeq(ts, 1, Len(ts) - 1)), ts[Len(ts)])

\* C1: on a started bar that was never finalized, the count equals
\* min(total, saturating sum of the tick amounts applied so far, in their order),
\* the sum saturating at the largest value of the counter type.
C1_ClampedAccumulation ==
    (Running /\ ~state.finished) =>
        state.current = Min(state.total, saturating_sum(applied))

\* two ticks were applied whose plain sum exceeds the counter type
C1_Witness ==
    /\ Running /\ ~state.finished /\ Quiescent
    /\ Len(applied) = 2
    /\ applied[1] > 0
    /\ applied[1] + applied[2] > U64Max

\* C2: when ticks are issued concurrently through several handles, then once
\* all of them have returned the count is the one a sequential application of
\* the same amounts (here: in the order of the calls) produces, whatever the
\* order in which the threads got the lock.
C2_ConcurrentTicks ==
    (Running /\ ~state.finished /\ Quiescent) =>
        state.current = Min(state.total, saturating_sum(called))

\* two overlapping ticks with different amounts took effect in the order
\* opposite to the order of their calls
C2_Witness ==
    /\ Running /\ ~state.finished /\ Quiescent
    /\ Len(called) = 2
    /\ called[1] # called[2]
    /\ applied = <<called[2], called[1]>>

\* C3: in every state of a started bar, 0 <= current <= total.
C3_CurrentInRange ==
    Running => (0 <= state.current /\ state.current <= state.total)

\* a tick that would have passed the total left the count at the total
C3_Witness ==
    /\ Running
    /\ Len(applied) > 0
    /\ saturating_sum(applied) > state.total
    /\ state.current = state.total

\* C4: once finished is true it stays true: no step sets it back to false.
C4_FinishedIsStable == [][state.finished => state'.finished]_vars

IsFinalize(e) == e.op \in {"success", "fail"}

\* the bar was finalized and operations of every kind completed afterwards
C4_Witness ==
    /\ state.finished
    /\ Len(history) >= 2
    /\ IsFinalize(history[1]) /\ history[1].acted
    /\ ~IsFinalize(history[2])


\* C5: a success or fail call on a bar that is already finished writes nothing
\* to the sink and leaves current, total and finished as they are.
C5_IdempotentFinalize ==
    [][\A h \in Handles :
        (pc[h] = "finalize_cs" /\ pc'[h] # "finalize_cs" /\ state.finished) =>
            /\ out' = out
            /\ state'.current = state.current
            /\ state'.total = state.total
            /\ state'.finished = state.finished]_vars

\* a finalize call took effect and a later one of the other kind found the
\* bar finished
C5_Witness ==
    \E i, j \in 1 .. Len(history) :
        /\ i < j
        /\ IsFinalize(history[i]) /\ history[i].acted
        /\ IsFinalize(history[j]) /\ ~history[j].acted
        /\ history[i].op # history[j].op

\* C6: a tick on a finalized bar, whatever its amount, leaves current as it is
\* and writes nothing to the sink.
C6_FinalizedRejectsTicks ==
    [][\A h \in Handles :
        (pc[h] \in {"tick_cs", "tick_store", "tick_write"} /\ pc'[h] # pc[h]
            /\ state.finished) =>
            /\ state'.current = state.current
            /\ out' = out]_vars

\* a tick with a positive amount found the bar finalized and returned
C6_Witness ==
    /\ state.finished
    /\ Quiescent
    /\ \E i \in 1 .. Len(history) :
        history[i].op = "tick" /\ ~history[i].acted /\ history[i].amount > 0

\* h is the one handle left: every other one is released or was never made
OnlyHandle(h) == Live(h) /\ \A k \in Handles \ {h} : ~Live(k)

\* C7: the release of the last remaining handle runs the cleanup, which
\* appends exactly the one piece "\n" when the bar was never finalized and
\* nothing when it was; no other step of the release writes anything.
C7_CleanupOnRelease ==
    [][\A h \in Handles : OnlyHandle(h) =>
        /\ (pc[h] = "ready" /\ pc'[h] \in {"drop_lock", "drop_arc"}) =>
               (pc'[h] = "drop_lock" /\ out' = out)
        /\ (pc[h] = "drop_lock" /\ pc'[h] = "drop_cs") => out' = out
        /\ (pc[h] = "drop_cs" /\ pc'[h] = "drop_arc") =>
               out' = (IF state.finished THEN out ELSE out \o <<LF>>)
        /\ (pc[h] = "drop_arc" /\ pc'[h] = "dropped") => out' = out]_vars

\* a bar that received ticks and no finalize call lost its last handle and
\* the sink ends with the cleanup newline
C7_Witness ==
    /\ Running
    /\ \A h \in Handles : ~Live(h)
    /\ ~state.finished
    /\ Len(applied) > 0
    /\ cleanups = 1
    /\ out[Len(out)] = LF
    /\ history[Len(history)] = Done("drop", NoArg, TRUE)

AllReleased == Running /\ \A h \in Handles : ~Live(h)

\* C8: for a bar that was never finalized, once all handles have been
\* released, in whatever interleaving, exactly one cleanup newline has been
\* written.
C8_ExactlyOneCleanup ==
    (AllReleased /\ ~state.finished) => cleanups = 1

\* C9: the total of a started bar is 1 if the supplied total was 0 and the
\* supplied total otherwise, in every state after start().
C9_EffectiveTotal ==
    Running => state.total = (IF builder.total = 0 THEN 1 ELSE builder.total)

\* a bar started with total 0 has run operations and its total is 1
C9_Witness ==
    /\ Running
    /\ builder.total = 0
    /\ state.total = 1
    /\ Len(applied) > 0

\* C10: start() takes the terminal mode from tty(b) when it was called, else
\* it is false when a custom writer was given, else it is the answer of the
\* probe; the probe is called only in the last case, and once.
C10_TtyResolution ==
    [][(phase = "builder" /\ phase' = "running") =>
        /\ state'.is_tty =
              (IF builder.tty_override # None THEN builder.tty_override = SomeTrue
               ELSE IF builder.writer THEN FALSE
               ELSE probe')
        /\ probe_calls' =
              (IF builder.tty_override = None /\ ~builder.writer THEN 1 ELSE 0)]_vars

\* a bar runs in terminal mode although the probe was never called: tty(true)
\* decided
C10_Witness ==
    /\ Running
    /\ state.is_tty
    /\ probe_calls = 0
    /\ out[1] = CR

\* ------------------------------------------------------- reading the sink
\* how often the piece tok occurs in w
Count(w, tok) == Cardinality({i \in 1 .. Len(w) : w[i] = tok})

\* where tok occurs last in w (0: nowhere)
LastOf(w, tok) ==
    IF Count(w, tok) = 0 THEN 0
    ELSE CHOOSE i \in 1 .. Len(w) :
            w[i] = tok /\ \A j \in (i + 1) .. Len(w) : w[j] # tok

\* w2 is w with something appended
Grew(w, w2) == Len(w2) >= Len(w) /\ SubSeq(w2, 1, Len(w)) = w

\* what was appended
Added(w, w2) == SubSeq(w2, Len(w) + 1, Len(w2))

\* seg is one in-progress line, without any framing, and it shows the counts
\* current/total
IsInProgressLine(seg, current, total) ==
    /\ Len(seg) >= 4
    /\ seg[1] = "["
    /\ Count(seg, "[") = 1
    /\ Count(seg, CR) = 0
    /\ Count(seg, LF) = 0
    /\ Count(seg, "/") = 1
    /\ \E i \in 2 .. (Len(seg) - 1) :
        /\ seg[i] = "/"
        /\ seg[i - 1] = ToString(current)
        /\ seg[i + 1] = ToString(total)

\* C11: every tick that finds the bar not finalized (whatever its amount, also
\* 0, and also when current already equals total) goes on to write, and its two
\* writes append exactly one in-progress record: in terminal mode "\r" and then
\* the line, with no newline; in non-terminal mode the line and then "\n", with
\* no carriage return.  Nothing else is written in between.
C11_TickWritesOneRecord ==
    [][\A h \in Handles :
        /\ (pc[h] = "tick_cs" /\ pc'[h] # "tick_cs" /\ ~state.finished) =>
               (pc'[h] = "tick_store" /\ out' = out)
        /\ (pc[h] = "tick_store" /\ pc'[h] = "tick_write") =>
               /\ Grew(out, out')
               /\ IF state.is_tty
                  THEN Added(out, out') = <<CR>>
                  ELSE IsInProgressLine(Added(out, out'), state'.current, state'.total)
        /\ (pc[h] = "tick_write" /\ pc'[h] = "ready") =>
               /\ Grew(out, out')
               /\ IF state.is_tty
                  THEN /\ out[Len(out)] = CR
                       /\ IsInProgressLine(Added(out, out'), state.current, state.total)
                  ELSE /\ Added(out, out') = <<LF>>
                       /\ IsInProgressLine(SubSeq(out, LastOf(out, "["), Len(out)),
                                           state.current, state.total)]_vars

\* in terminal mode a tick of amount 0 found current equal to total and wrote
\* its record: the sink holds three records, none ended by a newline
C11_Witness ==
    /\ Running /\ Quiescent /\ ~state.finished
    /\ state.is_tty
    /\ Len(applied) = 2
    /\ applied[1] >= state.total
    /\ applied[2] = 0
    /\ state.current = state.total
    /\ Count(out, CR) = 3
    /\ Count(out, LF) = 0
    /\ IsInProgressLine(SubSeq(out, LastOf(out, CR) + 1, Len(out)),
                        state.current, state.total)

\* the pieces that hold an ANSI escape sequence (ESC followed by "["); the
\* glyphs, the symbols and the texts of Messages and FinalMessages hold none
IsEscape(tok) == tok \in {Green, Red, ClearLine, Reset}

\* C12: in non-terminal mode, whatever start, tick, set_message, success, fail
\* and drop have written (the message texts holding no escape character), no
\* piece in the sink holds an ANSI escape sequence.
C12_NoEscapeInNonTty ==
    (Running /\ ~state.is_tty) => \A i \in 1 .. Len(out) : ~IsEscape(out[i])

\* a non-terminal bar was ticked, then failed, and its handles were released:
\* the sink holds the finalization record
C12_Witness ==
    /\ AllReleased
    /\ ~state.is_tty
    /\ Len(applied) = 1
    /\ Count(out, FailSymbol) = 1
    /\ out[Len(out)] = LF

\* the finalization record of success (ok) or fail with the text given, in
\* terminal mode or not
FinalizationRecord(ok, text, is_tty) ==
    LET symbol == IF ok THEN "CHECK_MARK" ELSE "CROSS_MARK"
        color == IF ok THEN "ESC[32m" ELSE "ESC[31m"
    IN  IF is_tty
        THEN <<"\r", "ESC[2K", color, symbol, "ESC[0m", " ", text, "\n">>
        ELSE <<symbol, " ", text, "\n">>

\* C13: the first success or fail call on a running bar appends exactly one
\* finalization record, built from the text of that call: in terminal mode
\* "\r", the clear-line code, the colour, the symbol, the reset code, " ", the
\* text, "\n"; in non-terminal mode the symbol, " ", the text, "\n".  success
\* has the green code and the check mark, fail the red code and the cross mark.
C13_FinalizationRecord ==
    [][\A h \in Handles :
        (pc[h] = "finalize_cs" /\ pc'[h] = "ready" /\ ~state.finished) =>
            /\ arg[h].op \in {"success", "fail"}
            /\ out' = out \o FinalizationRecord(arg[h].op = "success", arg[h].msg,
                                                state.is_tty)]_vars

\* in terminal mode fail("done") was the first finalize call, on a bar whose
\* stored message is another text, and the sink ends with the red record
C13_Witness ==
    /\ Running /\ Quiescent
    /\ state.finished
    /\ state.is_tty
    /\ state.message = "msg"
    /\ Len(out) >= 8
    /\ SubSeq(out, Len(out) - 7, Len(out)) =
            <<CR, ClearLine, Red, FailSymbol, Reset, " ", "done", LF>>

\* the line of the one record in the sink after render_call, without its framing
RenderedLine ==
    IF state.is_tty THEN SubSeq(out, 2, Len(out)) ELSE SubSeq(out, 1, Len(out) - 1)

\* round(a / b) for integers a >= 0 and b > 0, halves away from zero
round_div(a, b) == (2 * a + b) \div (2 * b)

\* C14: for every current <= total, every width w >= 0 and every message m, the
\* rendered line holds between "[" and "]" a bar of exactly w glyphs,
\* round(current / total * w) fill glyphs followed by w minus that many empty
\* glyphs (a number that is never negative), then the text current "/" total,
\* and " " and m after it if and only if m is not empty.
C14_RenderedBar ==
    phase = "rendered" =>
        LET line == RenderedLine
            w == state.config.width
            k == round_div(state.current * w, state.total)
            after == SubSeq(line, w + 3, Len(line))
        IN  /\ w - k >= 0
            /\ Len(line) >= w + 2
            /\ line[1] = "["
            /\ SubSeq(line, 2, w + 1) =
                    Repeat(state.config.fill, k) \o Repeat(state.config.empty, w - k)
            /\ line[w + 2] = "]"
            /\ Len(after) >= 7
            /\ SubSeq(after, 5, 7) =
                    <<ToString(state.current), "/", ToString(state.total)>>
            /\ IF state.message = ""
               THEN Len(after) = 7
               ELSE SubSeq(after, 8, Len(after)) = <<" ", state.message>>

\* the piece of the rendered line that shows the percentage
RenderedPercent == RenderedLine[state.config.width + 4]

\* n as render() can show it: as it is or right-aligned in three columns
Shows(tok, n) == tok \in {ToString(n), " " \o ToString(n), "  " \o ToString(n)}

\* C15: for every current <= total with total >= 1, the percentage shown in the
\* rendered line is floor(current * 100 / total): it is cut off and never
\* rounded up, it lies in 0 .. 100 and it is 100 exactly when current = total
\* (1 of 3 shows 33, 29 of 100 shows 29).
C15_PercentShown ==
    phase = "rendered" =>
        LET percent == (state.current * 100) \div state.total
        IN  /\ Shows(RenderedPercent, percent)
            /\ percent \in 0 .. 100
            /\ percent = 100 <=> state.current = state.total

\* rec is one framed in-progress record: "\r" and the line in terminal mode,
\* the line and "\n" otherwise; the line shows current/total and ends with the
\* message msg if that is not empty
IsInProgressRecord(rec, is_tty, current, total, msg) ==
    /\ Len(rec) >= 2
    /\ LET line == IF is_tty THEN SubSeq(rec, 2, Len(rec))
                    ELSE SubSeq(rec, 1, Len(rec) - 1)
           n == Len(line)
       IN  /\ IF is_tty THEN rec[1] = CR ELSE rec[Len(rec)] = LF
           /\ IsInProgressLine(line, current, total)
           /\ IF msg = ""
              THEN line[n - 1] = "/"
              ELSE line[n - 3] = "/" /\ line[n - 1] = " " /\ line[n] = msg

\* C16: until start() nothing is written and no handle exists; start() writes
\* exactly one in-progress record, showing current 0, the total as normalised
\* (0 becomes 1) and the message given to the builder, and only then is there
\* the first handle: whatever a tick, a finalize or a cleanup writes comes
\* after that record.
C16_InitialRecord ==
    [][/\ phase = "builder" => (out = <<>> /\ \A h \in Handles : pc[h] = "unborn")
       /\ (phase = "builder" /\ phase' = "running") =>
            /\ IsInProgressRecord(out', state'.is_tty, 0,
                                  IF builder.total = 0 THEN 1 ELSE builder.total,
                                  builder.message)
            /\ pc'[1] = "ready"
            /\ \A h \in Handles \ {1} : pc'[h] = "unborn"
       /\ Grew(out, out')]_vars

\* start() returned for a builder with total 0, a message and terminal mode:
\* the sink holds the one record "\r[...]   0% 0/1 msg"
C16_Witness ==
    /\ Running
    /\ builder.total = 0
    /\ state.is_tty
    /\ Count(out, "[") = 1
    /\ out[1] = CR
    /\ SubSeq(out, Len(out) - 4, Len(out)) = <<"0", "/", "1", " ", "msg">>
    /\ pc[1] = "ready"

IsSetMessage(e) == e.op = "set_message"

\* a set_message call has taken effect: the stored message is the text of the
\* latest one
MessageWasSet == SelectSeq(history, IsSetMessage) # <<>>

\* what set_message does on its own: the stored message is replaced, nothing is
\* written, current, total and finished stay
SetMessageFrame(h) ==
    (pc[h] = "set_message_cs" /\ pc'[h] = "ready") =>
        /\ state'.message = arg[h].msg
        /\ out' = out
        /\ state'.current = state.current
        /\ state'.total = state.total
        /\ state'.finished = state.finished

\* the step of a tick of h that writes the line of its record
WritesLine(h) ==
    \/ pc[h] = "tick_store" /\ pc'[h] = "tick_write" /\ ~state.is_tty
    \/ pc[h] = "tick_write" /\ pc'[h] = "ready" /\ state.is_tty

\* the step of a finalize call of h that writes the finalization record
WritesFinalization(h) ==
    pc[h] = "finalize_cs" /\ pc'[h] = "ready" /\ ~state.finished

\* the line ends with the message msg, or with the total if msg is empty
EndsWithMessage(line, msg) ==
    LET n == Len(line)
    IN  /\ n >= 4
        /\ IF msg = ""
           THEN line[n - 1] = "/"
           ELSE line[n - 3] = "/" /\ line[n - 1] = " " /\ line[n] = msg

\* C17 as claimed: set_message replaces the stored message, writes nothing and
\* leaves current, total and finished as they are; the next record written
\* after it, by a tick or by a finalize call, carries the new message text.
C17_SetMessage ==
    [][\A h \in Handles :
        /\ SetMessageFrame(h)
        /\ (WritesLine(h) /\ MessageWasSet) =>
               EndsWithMessage(Added(out, out'), state'.message)
        /\ (WritesFinalization(h) /\ MessageWasSet /\ state.message # "") =>
               Count(Added(out, out'), state.message) > 0]_vars

\* C17 as amended: set_message replaces the stored message, writes nothing and
\* leaves current, total and finished as they are; the next in-progress record,
\* which only a tick writes, carries the new message text (and no message if
\* the text is empty); a finalization record carries the text of its own call
\* and not the stored message.
C17_SetMessageAmended ==
    [][\A h \in Handles :
        /\ SetMessageFrame(h)
        /\ (WritesLine(h) /\ MessageWasSet) =>
               EndsWithMessage(Added(out, out'), state'.message)
        /\ (WritesFinalization(h) /\ MessageWasSet /\ state.message # "") =>
               /\ Count(Added(out, out'), arg[h].msg) = 1
               /\ Count(Added(out, out'), state.message) = 0]_vars

\* in terminal mode set_message("msg") took effect, a later tick rendered, and
\* the sink ends with the new message
C17_Witness ==
    /\ Running /\ Quiescent
    /\ state.is_tty
    /\ Len(history) = 2
    /\ IsSetMessage(history[1]) /\ history[1].msg = "msg"
    /\ IsAppliedTick(history[2])
    /\ SubSeq(out, Len(out) - 1, Len(out)) = <<" ", "msg">>
    /\ Count(out, "msg") = 1

\* the number of finalization records in w: each holds its symbol once
NumFinalizations(w) == Count(w, SuccessSymbol) + Count(w, FailSymbol)

\* C18: whatever tick, set_message, success and fail calls the handles of a
\* bar make concurrently, and however the handles are released, the sink never
\* holds more than one finalization record, and once it holds one nothing is
\* appended any more: a step that changes the sink finds no finalization
\* record in it, and if it leaves one, the sink ends with that record.
C18_FinalizationIsLast ==
    [][out' # out =>
       /\ NumFinalizations(out) = 0
       /\ NumFinalizations(out') <= 1
       /\ NumFinalizations(out') = 1 =>
            LET n == IF state'.is_tty THEN 8 ELSE 4
                last == SubSeq(out', Len(out') - n + 1, Len(out'))
            IN  /\ Len(out') >= n
                /\ NumFinalizations(last) = 1
                /\ last[IF state'.is_tty THEN 4 ELSE 1] \in {SuccessSymbol, FailSymbol}
                /\ last[n] = LF]_vars

\* two handles: a finalize call took effect, a later tick with a positive
\* amount and the cleanup of the last handle found the bar finished, and all
\* handles are released
C18_Witness ==
    /\ AllReleased
    /\ pc[2] = "dropped"
    /\ NumFinalizations(out) = 1
    /\ out[Len(out)] = LF
    /\ \E i, j, k \in 1 .. Len(history) :
        /\ i < j /\ j < k
        /\ IsFinalize(history[i]) /\ history[i].acted
        /\ history[j].op = "tick" /\ ~history[j].acted /\ history[j].amount > 0
        /\ history[k].op = "drop" /\ ~history[k].acted

\* C19: on a writer whose write and flush fail, tick, set_message, success and
\* fail still run to their return and still change the state: a tick advances
\* current (clamped), set_message stores its text, the first finalize call
\* sets finished, and after that ticks and finalize calls return without any
\* change.  Nothing reaches the sink.
C19_FailingSink ==
    [][\A h \in Handles : ~sink_ok =>
        /\ (pc[h] = "tick_cs" /\ pc'[h] # "tick_cs") =>
               /\ state' = state
               /\ pc'[h] = (IF state.finished THEN "ready" ELSE "tick_store")
        /\ (pc[h] = "tick_store" /\ pc'[h] # "tick_store") =>
               /\ state'.current =
                      Min(state.total, Min(U64Max, state.current + arg[h].amount))
               /\ state'.finished = state.finished
               /\ pc'[h] = "tick_write"
        /\ (pc[h] = "tick_write" /\ pc'[h] # "tick_write") =>
               (state' = state /\ pc'[h] = "ready")
        /\ (pc[h] = "set_message_cs" /\ pc'[h] # "set_message_cs") =>
               (state' = [state EXCEPT !.message = arg[h].msg] /\ pc'[h] = "ready")
        /\ (pc[h] = "finalize_cs" /\ pc'[h] # "finalize_cs") =>
               (state' = [state EXCEPT !.finished = TRUE] /\ pc'[h] = "ready")
        /\ out' = out /\ out = <<>>]_vars

\* on a failing writer a tick advanced current, then a finalize call set
\* finished, both calls returned, and the sink is empty
C19_Witness ==
    /\ Running /\ Quiescent
    /\ ~sink_ok
    /\ out = <<>>
    /\ Len(history) = 2
    /\ IsAppliedTick(history[1]) /\ history[1].amount > 0
    /\ IsFinalize(history[2]) /\ history[2].acted
    /\ state.current > 0
    /\ state.finished

\* h is between the acquisition of the mutex and the release of its guard
InCriticalSection(h) ==
    pc[h] \in {"tick_cs", "tick_store", "tick_write", "set_message_cs",
               "finalize_cs", "drop_cs"}

MutualExclusion == \A h \in Handles : InCriticalSection(h) => lock = h

\* a render() is between its two writes
MidRender == \E h \in Handles : pc[h] = "tick_write"

\* the sink, with the record that is being written (if one is) left out in
\* terminal mode, where only its "\r" is there, and completed by its "\n" in
\* non-terminal mode, where its line is there
SettledSink ==
    IF ~MidRender THEN out
    ELSE IF state.is_tty THEN SubSeq(out, 1, Len(out) - 1)
    ELSE out \o <<LF>>

\* the "\n" at i ends a finalization record of terminal mode
EndsFinalization(w, i) == i >= 8 /\ w[i - 7] = CR /\ w[i - 6] = ClearLine

\* where the records of w start: in terminal mode at every "\r" and at the
\* "\n" of a cleanup, in non-terminal mode after every "\n"
Starts(w, is_tty) ==
    IF is_tty
    THEN {i \in 1 .. Len(w) :
            w[i] = CR \/ (w[i] = LF /\ ~EndsFinalization(w, i))}
    ELSE {i \in 1 .. Len(w) : i = 1 \/ w[i - 1] = LF}

\* how the counts are written
Numerals == [n \in U64 |-> ToString(n)]

\* the record of w that starts at s, starts being where the records of w
\* start: up to the next start or to the end
RecordAt(w, starts, s) ==
    LET later == {i \in starts : i > s}
        e == IF later = {} THEN Len(w)
             ELSE (CHOOSE i \in later : \A j \in later : i <= j) - 1
    IN  SubSeq(w, s, e)

\* line is a line as render() builds it for a bar of this configuration and
\* total: "[", the fill glyphs, the empty glyphs, "]", the percentage, a count
\* "/" the total and perhaps a message
IsBarLine(line, config, total) ==
    LET n == config.width
    IN  /\ Len(line) \in {n + 9, n + 11}
        /\ line[1] = "["
        /\ \A i \in 2 .. (n + 1) : line[i] \in {config.fill, config.empty}
        /\ \A i \in 2 .. n : line[i] = config.empty => line[i + 1] = config.empty
        /\ line[n + 2] = "]"
        /\ line[n + 3] = " "
        /\ line[n + 5] = "%"
        /\ line[n + 6] = " "
        /\ \E current \in U64 : line[n + 7] = Numerals[current]
        /\ line[n + 8] = "/"
        /\ line[n + 9] = ToString(total)
        /\ Len(line) = n + 11 =>
                (line[n + 10] = " " /\ line[n + 11] \in Messages \ {""})

\* rec is a whole record: the cleanup newline, a finalization record or a
\* framed in-progress line
IsRecord(rec, is_tty, config, total) ==
    \/ rec = <<LF>>
    \/ \E ok \in BOOLEAN, text \in FinalMessages :
            rec = FinalizationRecord(ok, text, is_tty)
    \/ /\ Len(rec) >= 2
       /\ IF is_tty
          THEN rec[1] = CR /\ IsBarLine(SubSeq(rec, 2, Len(rec)), config, total)
          ELSE /\ rec[Len(rec)] = LF
               /\ IsBarLine(SubSeq(rec, 1, Len(rec) - 1), config, total)

\* w is a sequence of whole records
WholeRecords(w, is_tty, config, total) ==
    LET starts == Starts(w, is_tty)
    IN  /\ Len(w) >= 1
        /\ 1 \in starts
        /\ \A s \in starts : IsRecord(RecordAt(w, starts, s), is_tty, config, total)

\* the counts that the in-progress records of w show, in their order
Shown(w) ==
    LET at == {i \in 2 .. Len(w) : w[i] = "/"}
        nth(k) == CHOOSE i \in at : Cardinality({j \in at : j < i}) = k - 1
    IN  [k \in 1 .. Cardinality(at) |-> w[nth(k) - 1]]

\* the count that tok shows
ValueOf(tok) == CHOOSE n \in U64 : Numerals[n] = tok

\* C20: every operation runs from the acquisition of the one mutex to its
\* return with the guard held, and the sink shows a sequential execution: it
\* is a sequence of whole records, none torn or interleaved with another; the
\* first in-progress record shows 0 and the one after the k-th tick that took
\* effect shows the count that this tick produced; the counts shown never
\* decrease.
C20_Linearizable ==
    Running =>
        LET w == SettledSink
            shown == Shown(w)
            ticks == applied
        IN  /\ MutualExclusion
            /\ WholeRecords(w, state.is_tty, state.config, state.total)
            /\ Len(shown) = 1 + Len(ticks) - (IF MidRender /\ state.is_tty THEN 1 ELSE 0)
            /\ \A k \in 1 .. Len(shown) :
                    shown[k] = Numerals[Min(state.total,
                                            saturating_sum(SubSeq(ticks, 1, k - 1)))]
            /\ \A k \in 1 .. (Len(shown) - 1) :
                    ValueOf(shown[k]) <= ValueOf(shown[k + 1])

\* two ticks with different amounts, called through two handles, overlapped and
\* took effect in the order opposite to their calls: the sink holds three whole
\* records with growing counts
C20_Witness ==
    /\ Running /\ Quiescent /\ ~state.finished
    /\ pc[2] = "ready"
    /\ Len(called) = 2
    /\ applied = <<called[2], called[1]>>
    /\ Cardinality(Starts(out, state.is_tty)) = 3
    /\ Len(Shown(out)) = 3
    /\ ValueOf(Shown(out)[1]) < ValueOf(Shown(out)[2])
    /\ ValueOf(Shown(out)[2]) < ValueOf(Shown(out)[3])

\* the number of cleanup newlines in w: the "\n" that stand alone, ending
\* neither an in-progress line of non-terminal mode nor a finalization record
NumCleanups(w, is_tty) ==
    Cardinality({i \in 1 .. Len(w) :
        /\ w[i] = LF
        /\ IF is_tty THEN ~EndsFinalization(w, i) ELSE (i = 1 \/ w[i - 1] = LF)})

\* C21: a bar ends in one way only: in every interleaving of operations and
\* releases the sink holds at most one cleanup newline, and never a cleanup
\* newline together with a finalization record.
C21_OneEnding ==
    Running =>
        LET newlines == NumCleanups(out, state.is_tty)
        IN  /\ newlines <= 1
            /\ newlines = cleanups
            /\ ~(newlines >= 1 /\ NumFinalizations(out) >= 1)

\* two handles were released one after the other, no finalize call was made,
\* and the sink of the non-terminal bar ends with the one cleanup newline after
\* the record of a tick
C21_Witness ==
    /\ AllReleased
    /\ pc[2] = "dropped"
    /\ ~state.is_tty
    /\ Len(applied) = 1
    /\ NumCleanups(out, FALSE) = 1
    /\ NumFinalizations(out) = 0
    /\ SubSeq(out, Len(out) - 1, Len(out)) = <<LF, LF>>

\* C22: under a fair scheduler, with finitely many operations, there is no
\* deadlock (whenever some operation is under way, the thread of some operation
\* under way can run) and every operation that was started returns.
C22_Progress ==
    /\ []((\E h \in Handles : InOperation(h)) =>
            (\E h \in Handles : Runnable(h)))
    /\ \A h \in Handles : InOperation(h) ~> ~InOperation(h)

\* the thread of handle 2 waits for the mutex while the thread of handle 1 is
\* between the two writes of its render
C22_Witness ==
    /\ Running
    /\ lock = 1
    /\ pc[1] = "tick_write"
    /\ pc[2] \in {"tick_lock", "set_message_lock", "finalize_lock"}
    /\ ~Runnable(2)

\* a step that makes handle h by Clone
IsClone(h) == pc[h] = "unborn" /\ pc'[h] = "ready"

\* a step of the release of handle h
IsRelease(h) ==
    /\ pc[h] \in {"ready", "drop_lock", "drop_cs", "drop_arc"}
    /\ pc'[h] \in {"drop_lock", "drop_cs", "drop_arc", "dropped"}
    /\ pc'[h] # pc[h]

\* C23: a Clone, and every step of the release of a handle while another
\* handle of the bar exists, write nothing and leave the state of the bar as it
\* is; the state is one for all handles: a tick through any handle starts from
\* the count that the ticks through all the handles have left, and leaves its
\* own result there.
C23_SharedState ==
    [][\A h \in Handles :
        /\ IsClone(h) => (out' = out /\ state' = state)
        /\ (IsRelease(h) /\ \E k \in Handles \ {h} : Live(k)) =>
               (out' = out /\ state' = state)
        /\ (pc[h] = "tick_cs" /\ pc'[h] = "tick_store") =>
               arg'[h].next = tick_current(Min(state.total, saturating_sum(applied)),
                                           arg[h].amount, state.total)
        /\ (pc[h] = "tick_store" /\ pc'[h] = "tick_write") =>
               state' = [state EXCEPT !.current = arg[h].next]]_vars

\* the first handle was released while its clone existed and nothing was
\* written for it; the count is the sum of the two ticks that took effect,
\* and the clone is the handle that is left
C23_Witness ==
    /\ Running
    /\ pc[1] = "dropped"
    /\ pc[2] = "ready"
    /\ strong = 1
    /\ cleanups = 0
    /\ NumCleanups(out, state.is_tty) = 0
    /\ ~state.finished
    /\ Len(applied) = 2
    /\ applied[1] > 0 /\ applied[2] > 0
    /\ state.current = applied[1] + applied[2]

====
